---- MODULE Spec2Model ----
(***************************************************************************)
(* opal-uefi-greeter: the pre-boot agent's entry point (src/main.rs).      *)
(*                                                                         *)
(* main calls run, which configures the console, loads the configuration,  *)
(* discovers the secure devices and, for every device that reports locked, *)
(* prompts for a password until try_unlock_device accepts one.  Every      *)
(* error run returns ends in main's handler: log, wait for Enter, cold     *)
(* reset.  The secure device and its Opal session (modules low_level and   *)
(* unlock_opal) are modelled from their specified contract.                *)
(***************************************************************************)
EXTENDS Integers, Sequences, FiniteSets, TLC

\* ------------------------------------------------------------- bounds
\* At most this many secure devices are discovered.
MaxDevices == 2
\* The operator enters at most this many wrong passwords per device.
MaxRejects == 2

\* ------------------------------------------------------------- inputs
\* What the operator may type.
Passwords == {"hunter2", "letmein"}

\* The unlock credential each drive holds (the drive is authoritative).
Pin(d) == IF d % 2 = 1 THEN "hunter2" ELSE "letmein"

\* config::Config as run reads it: Option<String> prompts (None is "")
\* and the clear_on_retry flag.
Configs ==
    [prompt : {"", "Enter disk password: "},
     retry_prompt : {"", "Wrong, again: "},
     clear_on_retry : BOOLEAN]

NoConfig == [prompt |-> "", retry_prompt |-> "", clear_on_retry |-> FALSE]

\* The lock bits of one locking range.
LockBits == [read_locked : BOOLEAN, write_locked : BOOLEAN]

VARIABLES
    pc,            \* position of main/run
    config,        \* the loaded configuration (run's `config`)
    ndev,          \* number of devices find_secure_devices returned
    device,        \* index of the for loop's current `device` (1-based)
    password,      \* run's `password` local ("" when none is held)
    result,        \* what run returned: "none", "Ok" or "Err"
    trace,         \* history: every operation run issued, in order
    hw,            \* the drives: sequence of lock bits, drive-side state
    session,       \* per drive: state of its Opal session
    open_sessions, \* per drive: number of sessions currently open
    dop,           \* device operation in progress: "none", "is_locked", "attempt_unlock"
    dstep,         \* its position
    dret,          \* its return value: "none", "Ok_true", "Ok_false", "Err"
    issued,        \* history: session methods issued, with the session state they met
    seq,           \* the session's sequence counter: the number the next packet gets
    sent,          \* history: the packets sent within the latest session, in order
    refused,       \* history: calls made on the latest session that failed unsent
    boot_partitions, \* run's `boot_partitions`: the EFI system partitions found
    boot_options,  \* run's `boot_options`: the menu, one (selectable, text) per line;
                   \* overrun: the text holds units from behind the name's array
    bootable_things, \* run's `bootable_things`: (partuuid, partition, efi_file)
    index,         \* run's first `index`: the menu line ui::choose returned
    cleaned,       \* run's second `index`: the cleaned index
    buf            \* run's `buf`: the bytes read from the chosen file

vars == <<pc, config, ndev, device, password, result, trace, hw, session,
          open_sessions, dop, dstep, dret, issued, seq, sent, refused,
          boot_partitions, boot_options, bootable_things, index,
          cleaned, buf>>

boot_vars == <<boot_partitions, boot_options, bootable_things, index, cleaned, buf>>
orch_vars == <<pc, config, ndev, device, password, result, trace, boot_vars>>
wire_vars == <<seq, sent, refused>>
dev_vars == <<hw, session, open_sessions, dop, dstep, dret, issued, wire_vars>>

Devices == 1..Len(hw)

Ev(op, d, a) == [op |-> op, dev |-> d, arg |-> a]

Log(op, d, a) == trace' = Append(trace, Ev(op, d, a))

\* Number of events `op` recorded for device d.
Count(op, d) ==
    Cardinality({i \in DOMAIN trace : trace[i].op = op /\ trace[i].dev = d})


\* ------------------------------------------------------------ initial
\* The drives exist before the program starts: between 0 and MaxDevices of
\* them, each with its own lock bits; no session is open.
Init ==
    /\ pc = "uefi_services_init"
    /\ config = NoConfig
    /\ ndev = 0
    /\ device = 0
    /\ password = ""
    /\ result = "none"
    /\ trace = << >>
    /\ hw \in UNION {[1..n -> LockBits] : n \in 0..MaxDevices}
    /\ session = [d \in DOMAIN hw |-> "Closed"]
    /\ open_sessions = [d \in DOMAIN hw |-> 0]
    /\ dop = "none"
    /\ dstep = "idle"
    /\ dret = "none"
    /\ issued = {}
    /\ seq = 0
    /\ sent = << >>
    /\ refused = {}
    /\ boot_partitions = << >>
    /\ boot_options = << >>
    /\ bootable_things = << >>
    /\ index = 0
    /\ cleaned = 0
    /\ buf = << >>

\* ------------------------------------------- run: control-flow pieces
\* `?` on an Err: run returns it to main.
ReturnErr ==
    /\ result' = "Err"
    /\ pc' = "log_error"

\* Mutant of ForDevices: the loop stops one device short.
ForDevices_StopsShort(d, n) == IF d < n THEN "recv_locked" ELSE "find_boot_partitions"

\* The head of `for mut device in devices` reached with index d of n.
ForDevices(d, n) == IF d <= n THEN "recv_locked" ELSE "find_boot_partitions"

\* Mutant of AfterRecvLocked: the negation is lost, locked devices are
\* skipped and unlocked ones prompted for.
AfterRecvLocked_Inverted(r) ==
    CASE r = "Err" -> "return"
      [] r = "Ok_false" -> "prompt"
      [] r = "Ok_true" -> "continue"

\* `if !device.recv_locked()? { continue; }`: what follows the query's
\* return value r.
AfterRecvLocked(r) ==
    CASE r = "Err" -> "return"
      [] r = "Ok_false" -> "continue"
      [] r = "Ok_true" -> "prompt"

\* Mutant of AfterTryUnlock: the accepted arm does not break.
AfterTryUnlock_NoBreak(r) ==
    CASE r = "Err" -> "return"
      [] r = "Ok_true" -> "retry"
      [] r = "Ok_false" -> "retry"

\* Mutant of AfterTryUnlock: a rejected credential leaves the loop too.
AfterTryUnlock_GiveUp(r) ==
    CASE r = "Err" -> "return"
      [] r = "Ok_true" -> "break"
      [] r = "Ok_false" -> "break"

\* Mutant of AfterTryUnlock: a fault is retried like a rejection.
AfterTryUnlock_RetryOnErr(r) ==
    CASE r = "Err" -> "retry"
      [] r = "Ok_true" -> "break"
      [] r = "Ok_false" -> "retry"

\* `match try_unlock_device(..)? { Ok(()) => break, Err(()) => () }`.
AfterTryUnlock(r) ==
    CASE r = "Err" -> "return"
      [] r = "Ok_true" -> "break"
      [] r = "Ok_false" -> "retry"

\* Mutant of RetryStart: the screen is cleared whatever the flag says.
RetryStart_AlwaysClear(cfg) == "clear"

\* Mutant of RetryStart: the loop goes back to the first prompt.
RetryStart_Reprompt(cfg) == IF cfg.clear_on_retry THEN "clear" ELSE "write_prompt"

\* `if config.clear_on_retry { clear()? }` then the retry prompt.
RetryStart(cfg) == IF cfg.clear_on_retry THEN "clear" ELSE "write_retry_prompt"

\* `config.prompt.as_deref().unwrap_or("password: ")`.
PromptText(cfg) == IF cfg.prompt = "" THEN "password: " ELSE cfg.prompt

\* `config.retry_prompt.as_deref().unwrap_or("bad password, retry: ")`.
RetryPromptText(cfg) ==
    IF cfg.retry_prompt = "" THEN "bad password, retry: " ELSE cfg.retry_prompt

\* The history's name for what a device operation returned.
Outcome(op, r) ==
    CASE r = "Err" -> "fault"
      [] op = "is_locked" /\ r = "Ok_true" -> "locked"
      [] op = "is_locked" /\ r = "Ok_false" -> "not_locked"
      [] op = "attempt_unlock" /\ r = "Ok_true" -> "accepted"
      [] op = "attempt_unlock" /\ r = "Ok_false" -> "rejected"

\* ------------------------------------------------------ main, run
\* main: if uefi_services::init(&mut st).is_err() { log::error!(..) } (lines
\* 51-53); a failure is logged, and main goes on to call run either way.
uefi_services_init ==
    /\ pc = "uefi_services_init"
    /\ pc' = "config_stdout"
    /\ \/ UNCHANGED trace
       \/ Log("log_error", 0, "Failed to initialize UEFI services")
    /\ UNCHANGED <<config, ndev, device, password, result>>
    /\ UNCHANGED dev_vars
    /\ UNCHANGED boot_vars

\* run: config_stdout(st).fix(info!())?
config_stdout ==
    /\ pc = "config_stdout"
    /\ \/ /\ pc' = "set_watchdog_timer"
          /\ UNCHANGED result
       \/ ReturnErr
    /\ UNCHANGED <<config, ndev, device, password, trace>>
    /\ UNCHANGED dev_vars
    /\ UNCHANGED boot_vars

\* run: set_watchdog_timer(0, 0x31337, None).fix(info!())?
set_watchdog_timer ==
    /\ pc = "set_watchdog_timer"
    /\ \/ /\ pc' = "config_load"
          /\ UNCHANGED result
       \/ ReturnErr
    /\ UNCHANGED <<config, ndev, device, password, trace>>
    /\ UNCHANGED dev_vars
    /\ UNCHANGED boot_vars

\* run: let config = config::load(image_handle, st)?
config_load ==
    /\ pc = "config_load"
    /\ \/ /\ config' \in Configs
          /\ pc' = "find_secure_devices"
          /\ UNCHANGED result
       \/ /\ ReturnErr
          /\ UNCHANGED config
    /\ UNCHANGED <<ndev, device, password, trace>>
    /\ UNCHANGED dev_vars
    /\ UNCHANGED boot_vars

\* run: let devices = unlock_opal::find_secure_devices(st).fix(info!())?
\* and the first evaluation of the for loop's head.
find_secure_devices ==
    /\ pc = "find_secure_devices"
    /\ \/ /\ ndev' = Len(hw)
          /\ device' = 1
          /\ pc' = ForDevices(1, Len(hw))
          /\ UNCHANGED result
       \/ /\ ReturnErr
          /\ UNCHANGED <<ndev, device>>
    /\ UNCHANGED <<config, password, trace>>
    /\ UNCHANGED dev_vars
    /\ UNCHANGED boot_vars

\* run: the call device.recv_locked() (line 74).
recv_locked ==
    /\ pc = "recv_locked"
    /\ dop = "none"
    /\ dop' = "is_locked"
    /\ dstep' = "start_session"
    /\ dret' = "none"
    /\ pc' = "recv_locked_ret"
    /\ Log("recv_locked", device, "")
    /\ UNCHANGED <<config, ndev, device, password, result>>
    /\ UNCHANGED <<hw, session, open_sessions, issued, wire_vars>>
    /\ UNCHANGED boot_vars

\* run: `if !device.recv_locked().fix(info!())? { continue; }` on the
\* query's return.
recv_locked_ret ==
    /\ pc = "recv_locked_ret"
    /\ dstep = "returned"
    /\ dop' = "none"
    /\ dstep' = "idle"
    /\ dret' = "none"
    /\ Log(Outcome("is_locked", dret), device, "recv_locked")
    /\ CASE AfterRecvLocked(dret) = "return" ->
              /\ ReturnErr
              /\ UNCHANGED device
         [] AfterRecvLocked(dret) = "continue" ->
              /\ device' = device + 1
              /\ pc' = ForDevices(device + 1, ndev)
              /\ UNCHANGED result
         [] AfterRecvLocked(dret) = "prompt" ->
              /\ pc' = "write_prompt"
              /\ UNCHANGED <<device, result>>
    /\ UNCHANGED <<config, ndev, password>>
    /\ UNCHANGED <<hw, session, open_sessions, issued, wire_vars>>
    /\ UNCHANGED boot_vars

\* run: st.stdout().write_str(prompt).unwrap() (line 79); a failed write
\* panics.
write_prompt ==
    /\ pc = "write_prompt"
    /\ \/ /\ pc' = "input_password"
          /\ Log("prompt", device, PromptText(config))
       \/ /\ pc' = "panic"
          /\ UNCHANGED trace
    /\ UNCHANGED <<config, ndev, device, password, result>>
    /\ UNCHANGED dev_vars
    /\ UNCHANGED boot_vars

\* run: let password = input::password(st)? (line 81).  The operator types
\* any password; wrong ones at most MaxRejects times per device.
input_password ==
    /\ pc = "input_password"
    /\ \/ \E pw \in Passwords :
            /\ pw = Pin(device) \/ Count("rejected", device) < MaxRejects
            /\ password' = pw
            /\ pc' = "try_unlock_device"
            /\ Log("password", device, pw)
            /\ UNCHANGED result
       \/ /\ ReturnErr
          /\ UNCHANGED <<password, trace>>
    /\ UNCHANGED <<config, ndev, device>>
    /\ UNCHANGED dev_vars
    /\ UNCHANGED boot_vars

\* run: the call unlock_opal::try_unlock_device(st, &config, &mut device,
\* password) (line 83); the password is moved into the call.
try_unlock_device ==
    /\ pc = "try_unlock_device"
    /\ dop = "none"
    /\ dop' = "attempt_unlock"
    /\ dstep' = "start_session"
    /\ dret' = "none"
    /\ pc' = "try_unlock_device_ret"
    /\ Log("try_unlock_device", device, password)
    /\ UNCHANGED <<config, ndev, device, password, result>>
    /\ UNCHANGED <<hw, session, open_sessions, issued, wire_vars>>
    /\ UNCHANGED boot_vars

\* run: the match on try_unlock_device's return (lines 83-88).
try_unlock_device_ret ==
    /\ pc = "try_unlock_device_ret"
    /\ dstep = "returned"
    /\ dop' = "none"
    /\ dstep' = "idle"
    /\ dret' = "none"
    /\ password' = ""
    /\ Log(Outcome("attempt_unlock", dret), device, "try_unlock_device")
    /\ CASE AfterTryUnlock(dret) = "return" ->
              /\ ReturnErr
              /\ UNCHANGED device
         [] AfterTryUnlock(dret) = "break" ->
              /\ device' = device + 1
              /\ pc' = ForDevices(device + 1, ndev)
              /\ UNCHANGED result
         [] AfterTryUnlock(dret) = "retry" ->
              /\ pc' = RetryStart(config)
              /\ UNCHANGED <<device, result>>
    /\ UNCHANGED <<config, ndev>>
    /\ UNCHANGED <<hw, session, open_sessions, issued, wire_vars>>
    /\ UNCHANGED boot_vars

\* Mutant of stdout_clear: clearing the screen also switches clear_on_retry
\* off in the configuration.
stdout_clear_ResetsFlag ==
    /\ pc = "clear"
    /\ \/ /\ pc' = "write_retry_prompt"
          /\ Log("clear", device, "")
          /\ config' = [config EXCEPT !.clear_on_retry = FALSE]
          /\ UNCHANGED result
       \/ /\ ReturnErr
          /\ UNCHANGED <<trace, config>>
    /\ UNCHANGED <<ndev, device, password>>
    /\ UNCHANGED dev_vars
    /\ UNCHANGED boot_vars

\* run: st.stdout().clear().fix(info!())? (line 89).
stdout_clear ==
    /\ pc = "clear"
    /\ \/ /\ pc' = "write_retry_prompt"
          /\ Log("clear", device, "")
          /\ UNCHANGED result
       \/ /\ ReturnErr
          /\ UNCHANGED trace
    /\ UNCHANGED <<config, ndev, device, password>>
    /\ UNCHANGED dev_vars
    /\ UNCHANGED boot_vars

\* run: st.stdout().write_str(retry_prompt).unwrap() (line 91), then the
\* loop starts over.
write_retry_prompt ==
    /\ pc = "write_retry_prompt"
    /\ \/ /\ pc' = "input_password"
          /\ Log("retry_prompt", device, RetryPromptText(config))
       \/ /\ pc' = "panic"
          /\ UNCHANGED trace
    /\ UNCHANGED <<config, ndev, device, password, result>>
    /\ UNCHANGED dev_vars
    /\ UNCHANGED boot_vars


\* ------------------------------------------------- run: boot continuation
\* What the firmware shows of a disk.  A directory entry is a regular file
\* with its bytes or a directory with its entries; a partition has a handle,
\* its GPT entry (type, name, unique GUID, first and last LBA) and a volume.
File(name, data) == [kind |-> "file", name |-> name, data |-> data, entries |-> << >>]

Dir(name, entries) == [kind |-> "dir", name |-> name, data |-> << >>, entries |-> entries]

Partition(handle, type, name, uuid, first, last, root) ==
    [handle |-> handle, partition_type_guid |-> type, partition_name |-> name,
     unique_partition_guid |-> uuid, starting_lba |-> first, ending_lba |-> last,
     root |-> root]

\* A volume with PE/COFF images at the top and in a subdirectory, next to a
\* text file and a one-byte file; the subdirectory lists "." and "..".
VolumeLinux ==
    Dir("", << File("notes.txt", <<104, 105, 33>>),
               Dir("EFI", << Dir(".", << >>), Dir("..", << >>),
                             File("grub.efi", <<77, 90, 144>>),
                             File("stub", <<77>>) >>),
               File("linux.efi", <<77, 90>>) >>)

VolumeShell == Dir("", << File("shell.efi", <<77, 90, 0>>) >>)

\* A volume without any PE/COFF image: its only file has the two magic
\* bytes in the wrong order.
VolumeNoImage == Dir("", << File("zm.bin", <<90, 77>>) >>)

\* A partition name that fills all 36 UTF-16 units of the GPT entry, so the
\* array holds no terminating NUL.
FullName == "AAAAAAAAAAAAAAAAAAAAAAAAAAAAAAAAAAAA"

\* The disks the machine may have: one without an EFI system partition,
\* one with two of them around a data partition, one whose first EFI system
\* partition holds no image, one whose partition name is not terminated
\* (with an image to boot), one whose GPT entry ends before it starts.
BootDisks ==
    { << Partition("h1", "DATA", "home", "uuid-1", 0, 9, VolumeShell) >>,
      << Partition("h1", "ESP", "esp", "uuid-1", 0, 4, VolumeLinux),
         Partition("h2", "DATA", "root", "uuid-2", 5, 9, VolumeShell),
         Partition("h3", "ESP", "rescue", "uuid-3", 10, 12, VolumeShell) >>,
      << Partition("h1", "ESP", "empty", "uuid-1", 0, 0, VolumeNoImage),
         Partition("h2", "ESP", "esp", "uuid-2", 1, 8, VolumeShell) >>,
      << Partition("h1", "ESP", FullName, "uuid-1", 0, 4, VolumeShell) >>,
      << Partition("h1", "ESP", "esp", "uuid-1", 5, 3, VolumeNoImage) >> }

\* What ui::choose may return beyond the lines of the menu: it returns a
\* usize and run does not compare it with the menu's length.
ChoosableIndices(options) == 0..(Len(options) + 2)

\* What a later read of a listed file may return instead of the bytes seen
\* at enumeration: the medium can change while the menu waits for the
\* operator (truncated file, file replaced by a non-PE one).
ChangedContents == { <<77>>, <<127, 69, 76, 70>> }

\* find_boot_partitions: the partitions whose GPT type is the EFI system
\* partition, in handle order.
EfiSystemPartitions(disk) ==
    LET IsEsp(p) == p.partition_type_guid = "ESP"
    IN  SelectSeq(disk, IsEsp)

\* Mutant of header_is_pe_coff: any file of two bytes or more is listed.
header_is_pe_coff_AnyTwoBytes(data) ==
    LET read == IF Len(data) < 2 THEN Len(data) ELSE 2
    IN  read = 2

\* find_efi_files_rec on one regular file: read_partial_file_to_vec fills a
\* zeroed two-byte header with what the file has and returns the count; the
\* file is listed when the count is 2 and the header is 0x4d 0x5a.
header_is_pe_coff(data) ==
    LET read == IF Len(data) < 2 THEN Len(data) ELSE 2
        header == [i \in 1..2 |-> IF i <= read THEN data[i] ELSE 0]
    IN  IF read # 2 THEN FALSE
        ELSE IF header # <<77, 90>> THEN FALSE
        ELSE TRUE

\* find_efi_files_rec: walks the directory in entry order, skips "." and
\* "..", descends into directories, and pushes prefix + name of each
\* regular file that passes the header check.
RECURSIVE find_efi_files_rec(_, _, _)
find_efi_files_rec(files, prefix, directory) ==
    LET pfx == prefix \o directory.name \o "\\"
        RECURSIVE read_entry(_, _)
        read_entry(fs, i) ==
            IF i > Len(directory.entries) THEN fs
            ELSE LET entry == directory.entries[i]
                 IN  IF entry.name = "." \/ entry.name = ".."
                       THEN read_entry(fs, i + 1)
                     ELSE IF entry.kind = "file"
                       THEN IF header_is_pe_coff(entry.data)
                              THEN read_entry(Append(fs, pfx \o entry.name), i + 1)
                              ELSE read_entry(fs, i + 1)
                     ELSE read_entry(find_efi_files_rec(fs, pfx, entry), i + 1)
    IN  read_entry(files, 1)

\* find_efi_files: the walk started at the volume's root with no prefix.
find_efi_files(partition) == find_efi_files_rec(<< >>, "", partition.root)

\* run: unsafe { CStr16::from_ptr(&name[0]) } (lines 100-101) scans the
\* name for a NUL.  A name shorter than the array is followed by one; on a
\* name of all 36 units the scan leaves the array, which is undefined
\* behaviour: it goes on to the first zero unit wherever that lies, and the
\* name comes out followed by the units passed on the way.  How many they
\* are and what they are differs between builds and runs: `overrun` tells
\* only whether there are any, their number and values are left open.
PartitionNames(gpt) ==
    IF Len(gpt.partition_name) < 36
      THEN {[name |-> gpt.partition_name, overrun |-> FALSE]}
      ELSE {[name |-> gpt.partition_name, overrun |-> o] : o \in BOOLEAN}

\* Decimal digits t padded with zeros on the left to width w.
RECURSIVE PadZeros(_, _)
PadZeros(t, w) == IF Len(t) >= w THEN t ELSE PadZeros("0" \o t, w)

\* {lbas} of a u64: the decimal text of v modulo 2^64, for v above
\* -9551616 (2^64 = 18446744073709551616).
U64Text(v) ==
    IF v >= 0 THEN ToString(v)
    ELSE "184467440737" \o PadZeros(ToString(9551616 + v), 8)

\* run: format!("\"{name}\": {partuuid} ({lbas} LBAs)") (line 104).
Description(name, partuuid, lbas) ==
    "\"" \o name \o "\": " \o partuuid \o " (" \o U64Text(lbas) \o " LBAs)"

\* run: lines 100-104 on one GPT entry.  ending_lba - starting_lba is a u64
\* subtraction: below zero it panics where overflow is checked and wraps
\* where it is not.  `text` is the description of the name as the array
\* holds it; with `overrun` the description shown has further units
\* between the name and the closing quote.
Descriptions(gpt) ==
    LET lbas == gpt.ending_lba - gpt.starting_lba
    IN  {[panic |-> FALSE,
          text |-> Description(n.name, gpt.unique_partition_guid, lbas),
          overrun |-> n.overrun] :
             n \in PartitionNames(gpt)}
        \cup (IF lbas < 0
                THEN {[panic |-> TRUE, text |-> "", overrun |-> FALSE]}
                ELSE {})

\* run: the body of `for (gpt, partition) in boot_partitions` (lines
\* 99-110) on menu m with description outcome d: one unselectable header,
\* then per EFI file one selectable line and one bootable thing.
PushPartition(m, p, d) ==
    LET files == find_efi_files(p)
    IN  IF m.panic THEN m
        ELSE IF d.panic THEN [m EXCEPT !.panic = TRUE]
        ELSE
        [options |-> m.options
                       \o << [selectable |-> FALSE, text |-> d.text,
                               overrun |-> d.overrun] >>
                       \o [i \in 1..Len(files) |->
                             [selectable |-> TRUE, text |-> "    " \o files[i],
                              overrun |-> FALSE]],
         things  |-> m.things
                       \o [i \in 1..Len(files) |->
                             [partuuid |-> p.unique_partition_guid,
                              partition |-> p.handle,
                              efi_file |-> files[i]]],
         panic   |-> FALSE]

\* run: the for loop over the first n boot partitions (lines 97-111): the
\* menus it can end with.
RECURSIVE BuildMenu(_, _)
BuildMenu(parts, n) ==
    IF n = 0 THEN {[options |-> << >>, things |-> << >>, panic |-> FALSE]}
    ELSE {PushPartition(m, parts[n], d) :
             m \in BuildMenu(parts, n - 1), d \in Descriptions(parts[n])}

\* Mutant of SelectableSum: the chosen line itself is not counted.
RECURSIVE SelectableSum_Exclusive(_, _)
SelectableSum_Exclusive(options, n) ==
    IF n <= 1 \/ options = << >> THEN 0
    ELSE (IF Head(options).selectable THEN 1 ELSE 0)
           + SelectableSum_Exclusive(Tail(options), n - 1)

\* run: boot_options.iter().take(n).map(|(selectable, _)| *selectable as
\* usize).sum() (line 116).
RECURSIVE SelectableSum(_, _)
SelectableSum(options, n) ==
    IF n = 0 \/ options = << >> THEN 0
    ELSE (IF Head(options).selectable THEN 1 ELSE 0)
           + SelectableSum(Tail(options), n - 1)

\* Every regular file below a directory, with its path and bytes.
RECURSIVE Files(_, _)
Files(directory, prefix) ==
    LET pfx == prefix \o directory.name \o "\\"
        es == directory.entries
    IN  UNION { IF es[i].name \in {".", ".."} THEN {}
                ELSE IF es[i].kind = "file"
                  THEN {[path |-> pfx \o es[i].name, data |-> es[i].data]}
                  ELSE Files(es[i], pfx) : i \in DOMAIN es }

\* The volume behind a partition handle.
Volume(handle) ==
    LET i == CHOOSE j \in DOMAIN boot_partitions : boot_partitions[j].handle = handle
    IN  boot_partitions[i].root

\* util::read_full_file(st, partition, &filename): the bytes the file has
\* on the volume.
read_full_file(handle, filename) ==
    (CHOOSE f \in Files(Volume(handle), "") : f.path = filename).data

\* Mutant of buf_is_pe_coff: only the first byte is compared.
buf_is_pe_coff_FirstByte(b) == Len(b) >= 1 /\ b[1] = 77

\* run: buf.get(0..2) == Some(&[0x4d, 0x5a]) (line 126); get is None on a
\* buffer shorter than two bytes.
buf_is_pe_coff(b) == Len(b) >= 2 /\ SubSeq(b, 1, 2) = <<77, 90>>

\* run returns: its locals of the boot continuation are dropped.
DropBootLocals ==
    /\ boot_partitions' = << >>
    /\ boot_options' = << >>
    /\ bootable_things' = << >>
    /\ index' = 0
    /\ cleaned' = 0
    /\ buf' = << >>

\* run: let boot_partitions = find_boot_partitions(st)? (line 95).
find_boot_partitions ==
    /\ pc = "find_boot_partitions"
    /\ \/ /\ \E disk \in BootDisks :
                boot_partitions' = EfiSystemPartitions(disk)
          /\ pc' = "boot_menu"
          /\ Log("find_boot_partitions", 0, "")
          /\ UNCHANGED result
       \/ /\ ReturnErr
          /\ UNCHANGED <<trace, boot_partitions>>
    /\ UNCHANGED <<config, ndev, device, password>>
    /\ UNCHANGED <<boot_options, bootable_things, index, cleaned, buf>>
    /\ UNCHANGED dev_vars

\* run: boot_options and bootable_things are built (lines 97-111); a
\* find_efi_files that fails ends run, a panicking subtraction the program.
boot_menu ==
    /\ pc = "boot_menu"
    /\ \/ /\ \E m \in BuildMenu(boot_partitions, Len(boot_partitions)) :
                IF m.panic
                  THEN /\ pc' = "panic"
                       /\ UNCHANGED <<boot_options, bootable_things>>
                  ELSE /\ pc' = "choose"
                       /\ boot_options' = m.options
                       /\ bootable_things' = m.things
          /\ UNCHANGED <<result, boot_partitions, index, cleaned, buf>>
       \/ /\ ReturnErr
          /\ DropBootLocals
    /\ UNCHANGED <<config, ndev, device, password, trace>>
    /\ UNCHANGED dev_vars

\* run: ui::choose returns an index, the index is cleaned and
\* bootable_things indexed with it (lines 113-120).  take(index + 1) stops
\* at the end of the menu.  `index - 1` on a sum of 0 panics (overflow
\* check) or wraps to usize::MAX, on which bootable_things[index] panics:
\* either way the program panics.
choose ==
    /\ pc = "choose"
    /\ \/ \E i \in ChoosableIndices(boot_options) :
            LET sum == SelectableSum(boot_options, i + 1)
            IN  /\ index' = i
                /\ Log("choose", 0, "")
                /\ IF sum = 0 \/ sum - 1 >= Len(bootable_things)
                     THEN /\ pc' = "panic"
                          /\ UNCHANGED cleaned
                     ELSE /\ pc' = "run_input_line"
                          /\ cleaned' = sum - 1
                /\ UNCHANGED <<result, boot_partitions, boot_options,
                               bootable_things, buf>>
       \/ /\ ReturnErr
          /\ DropBootLocals
          /\ UNCHANGED trace
    /\ UNCHANGED <<config, ndev, device, password>>
    /\ UNCHANGED dev_vars

\* run: let _ = input::line(st) (line 121): the operator confirms with
\* Enter; the result is dropped.
run_input_line ==
    /\ pc = "run_input_line"
    /\ pc' = "read_full_file"
    /\ Log("input_line", 0, "")
    /\ UNCHANGED <<config, ndev, device, password, result>>
    /\ UNCHANGED boot_vars
    /\ UNCHANGED dev_vars

\* run: the file name is converted and the chosen file read in full
\* (lines 123-125); either can fail.  The read returns what the file holds
\* by now.
read_file ==
    /\ pc = "read_full_file"
    /\ LET thing == bootable_things[cleaned + 1]
       IN  \/ /\ ReturnErr
              /\ DropBootLocals
           \/ /\ \E b \in {read_full_file(thing.partition, thing.efi_file)}
                             \cup ChangedContents :
                    buf' = b
              /\ pc' = "load_image"
              /\ UNCHANGED <<result, boot_partitions, boot_options,
                             bootable_things, index, cleaned>>
    /\ UNCHANGED <<config, ndev, device, password, trace>>
    /\ UNCHANGED dev_vars

\* run: buf is checked for the PE/COFF magic and handed to load_image
\* (lines 126-147); a buffer without the magic makes run return
\* ImageNotPeCoff.  handle_protocol::<DevicePath> (130-133) can fail before
\* load_image is called; load_image itself, handle_protocol::<LoadedImage>
\* and the conversion of the arguments (134-145) can fail after.
load_image ==
    /\ pc = "load_image"
    /\ LET thing == bootable_things[cleaned + 1]
       IN  IF ~buf_is_pe_coff(buf)
             THEN /\ ReturnErr
                  /\ DropBootLocals
                  /\ Log("ImageNotPeCoff", 0, thing.efi_file)
             ELSE \/ /\ ReturnErr
                     /\ DropBootLocals
                     /\ UNCHANGED trace
                  \/ /\ Log("load_image", 0, thing.efi_file)
                     /\ \/ /\ pc' = "start_image"
                           /\ UNCHANGED <<result, boot_vars>>
                        \/ /\ ReturnErr
                           /\ DropBootLocals
    /\ UNCHANGED <<config, ndev, device, password>>
    /\ UNCHANGED dev_vars

\* run: start_image(loaded_image_handle).fix(info!())?; Ok(()) (lines
\* 149-153).  When the started image returns, so does run: with Ok, or with
\* the error status the image exited with; or the image could not be
\* started at all.
start_image ==
    /\ pc = "start_image"
    /\ \/ /\ pc' = "log_reboot"
          /\ result' = "Ok"
          /\ Log("start_image", 0, "Ok")
       \/ /\ ReturnErr
          /\ Log("start_image", 0, "Err")
       \/ /\ ReturnErr
          /\ UNCHANGED trace
    /\ DropBootLocals
    /\ UNCHANGED <<config, ndev, device, password>>
    /\ UNCHANGED dev_vars

\* --------------------------------------------------- main: the handler
\* main: `if let Err(err) = run(..) { log::error!("Error: {:?}", err) }`.
log_error ==
    /\ pc = "log_error"
    /\ pc' = "log_reboot"
    /\ Log("log_error", 0, "Error")
    /\ UNCHANGED <<config, ndev, device, password, result>>
    /\ UNCHANGED dev_vars
    /\ UNCHANGED boot_vars

\* Mutant of log_reboot: main resets without waiting for Enter.
log_reboot_NoWait ==
    /\ pc = "log_reboot"
    /\ pc' = "reset"
    /\ Log("log_error", 0, "Encountered error. Reboot on Enter...")
    /\ UNCHANGED <<config, ndev, device, password, result>>
    /\ UNCHANGED dev_vars
    /\ UNCHANGED boot_vars

\* main: log::error!("Encountered error. Reboot on Enter...").
log_reboot ==
    /\ pc = "log_reboot"
    /\ pc' = "input_line"
    /\ Log("log_error", 0, "Encountered error. Reboot on Enter...")
    /\ UNCHANGED <<config, ndev, device, password, result>>
    /\ UNCHANGED dev_vars
    /\ UNCHANGED boot_vars

\* main: let _ = input::line(&mut st); its result is dropped.
input_line ==
    /\ pc = "input_line"
    /\ pc' = "reset"
    /\ Log("input_line", 0, "")
    /\ UNCHANGED <<config, ndev, device, password, result>>
    /\ UNCHANGED dev_vars
    /\ UNCHANGED boot_vars

\* main: st.runtime_services().reset(ResetType::Cold, ..), which does not
\* return.
reset ==
    /\ pc = "reset"
    /\ pc' = "halted"
    /\ Log("reset", 0, "Cold")
    /\ UNCHANGED <<config, ndev, device, password, result>>
    /\ UNCHANGED dev_vars
    /\ UNCHANGED boot_vars


\* ------------------------------------ Secure Device and Opal Session
\* The session state machine is
\*   Closed --StartSession--> Authenticating --ack--> Active
\*   Authenticating --nak/timeout--> Closed,  Active --EndSession/error--> Closed
\* and is_locked and attempt_unlock each run one session on the device.

\* is_locked's report: either read or write lock is asserted.
is_locked(b) == b.read_locked \/ b.write_locked

\* Mutant of set_locking_state_bits: only the read lock is written.
set_locking_state_bits_ReadOnly(b, r, w) == [b EXCEPT !.read_locked = r]

\* set_locking_state(range, read_locked, write_locked) on lock bits b.
set_locking_state_bits(b, r, w) == [b EXCEPT !.read_locked = r, !.write_locked = w]

\* The drive's answer to Authenticate: the password against its credential.
authenticated(d, pw) == pw = Pin(d)

\* The first method a device operation invokes once its session is Active.
FirstMethod(op) == IF op = "is_locked" THEN "get_locking_state" ELSE "authenticate"

\* Mutant of AfterAuthenticate: a rejection returns without closing the
\* session.
AfterAuthenticate_Leak(ok) == IF ok THEN "set_locking_state" ELSE "returned"

\* attempt_unlock: what follows Authenticate's answer.
AfterAuthenticate(ok) == IF ok THEN "set_locking_state" ELSE "close"

\* A session opens on device d, with a sequence counter of its own.
Open(d) ==
    /\ session' = [session EXCEPT ![d] = "Authenticating"]
    /\ open_sessions' = [open_sessions EXCEPT ![d] = @ + 1]
    /\ seq' = 0
    /\ sent' = << >>
    /\ refused' = {}

\* The session of device d is destroyed (EndSession, nak or a transport
\* error).
Destroy(d) ==
    /\ session' = [session EXCEPT ![d] = "Closed"]
    /\ open_sessions' = [open_sessions EXCEPT ![d] = @ - 1]

\* A method is issued on device d's session, in whatever state that is.
Issue(m, d) ==
    issued' = issued \cup {[method |-> m, dev |-> d, state |-> session[d]]}

\* Mutant of Transmit: the sequence counter is not advanced.
Transmit_Reuse(m) ==
    /\ sent' = Append(sent, [method |-> m, seq |-> seq])
    /\ UNCHANGED <<seq, refused>>

\* The codec frames a packet for method m with the session's next sequence
\* number, and the counter advances.
Transmit(m) ==
    /\ sent' = Append(sent, [method |-> m, seq |-> seq])
    /\ seq' = seq + 1
    /\ UNCHANGED refused

\* A call on a session that is not Active fails without sending anything.
Refuse(m) ==
    /\ refused' = refused \cup {m}
    /\ UNCHANGED <<seq, sent>>

\* Mutant of Call: a packet goes out whatever the session's state.
Call_SendsAnyway(m, d) == Transmit(m)

\* A call of method m on device d's session object.
Call(m, d) == IF session[d] = "Active" THEN Transmit(m) ELSE Refuse(m)

\* StartSession is answered by nak or a timeout: no session comes to be and
\* the operation returns Err.
Fault(d) ==
    /\ Destroy(d)
    /\ dret' = "Err"
    /\ dstep' = "returned"

\* A transport or protocol fault in a method call: the session is gone, the
\* operation will return Err, and its session object is dropped on the way
\* out (a best-effort close()).
MethodFault(d) ==
    /\ Destroy(d)
    /\ dret' = "Err"
    /\ dstep' = "close_faulted"

\* StartSession is sent.
start_session ==
    /\ dstep = "start_session"
    /\ Open(device)
    /\ dstep' = "sync_session"
    /\ UNCHANGED <<hw, dop, dret, issued>>
    /\ UNCHANGED orch_vars

\* The drive's answer to StartSession: ack, or nak/timeout.
sync_session ==
    /\ dstep = "sync_session"
    /\ \/ /\ session' = [session EXCEPT ![device] = "Active"]
          /\ dstep' = FirstMethod(dop)
          /\ UNCHANGED <<open_sessions, dret>>
       \/ Fault(device)
    /\ UNCHANGED <<hw, dop, issued, wire_vars>>
    /\ UNCHANGED orch_vars

\* is_locked: Get on the locking-range row.
get_locking_state ==
    /\ dstep = "get_locking_state"
    /\ Issue("get_locking_state", device)
    /\ Call("get_locking_state", device)
    /\ \/ /\ dret' = IF is_locked(hw[device]) THEN "Ok_true" ELSE "Ok_false"
          /\ dstep' = "close"
          /\ UNCHANGED <<session, open_sessions>>
       \/ MethodFault(device)
    /\ UNCHANGED <<hw, dop>>
    /\ UNCHANGED orch_vars

\* attempt_unlock: Authenticate with the supplied password.
authenticate ==
    /\ dstep = "authenticate"
    /\ Issue("authenticate", device)
    /\ Call("authenticate", device)
    /\ \/ /\ dstep' = AfterAuthenticate(authenticated(device, password))
          /\ dret' = IF authenticated(device, password) THEN dret ELSE "Ok_false"
          /\ UNCHANGED <<session, open_sessions>>
       \/ MethodFault(device)
    /\ UNCHANGED <<hw, dop>>
    /\ UNCHANGED orch_vars

\* attempt_unlock: Set clearing both lock bits.
set_locking_state ==
    /\ dstep = "set_locking_state"
    /\ Issue("set_locking_state", device)
    /\ Call("set_locking_state", device)
    /\ \/ /\ hw' = [hw EXCEPT ![device] = set_locking_state_bits(@, FALSE, FALSE)]
          /\ dret' = "Ok_true"
          /\ dstep' = "close"
          /\ UNCHANGED <<session, open_sessions>>
       \/ /\ MethodFault(device)
          /\ UNCHANGED hw
    /\ UNCHANGED dop
    /\ UNCHANGED orch_vars

\* close(): best-effort EndSession; the operation then returns its value.
close ==
    /\ dstep = "close"
    /\ Call("EndSession", device)
    /\ Destroy(device)
    /\ dstep' = "returned"
    /\ UNCHANGED <<hw, dop, dret, issued>>
    /\ UNCHANGED orch_vars

\* close() on a session a fault has closed: the call fails, which is logged
\* and not propagated; the operation returns its Err.
close_faulted ==
    /\ dstep = "close_faulted"
    /\ Call("EndSession", device)
    /\ dstep' = "returned"
    /\ UNCHANGED <<hw, session, open_sessions, dop, dret, issued>>
    /\ UNCHANGED orch_vars

\* ------------------------------------------------------ specification
Next ==
    \/ uefi_services_init
    \/ config_stdout
    \/ set_watchdog_timer
    \/ config_load
    \/ find_secure_devices
    \/ recv_locked
    \/ recv_locked_ret
    \/ write_prompt
    \/ input_password
    \/ try_unlock_device
    \/ try_unlock_device_ret
    \/ stdout_clear
    \/ write_retry_prompt
    \/ find_boot_partitions
    \/ boot_menu
    \/ choose
    \/ run_input_line
    \/ read_file
    \/ load_image
    \/ start_image
    \/ log_error
    \/ log_reboot
    \/ input_line
    \/ reset
    \/ start_session
    \/ sync_session
    \/ get_locking_state
    \/ authenticate
    \/ set_locking_state
    \/ close
    \/ close_faulted

Spec == Init /\ [][Next]_vars

\* The program is sequential and the firmware runs it: a step that can be
\* taken is taken; and the operator eventually types the right password.
FairSpec ==
    /\ Spec
    /\ WF_vars(Next)
    /\ SF_vars(input_password /\ password' = Pin(device))

TypeOK ==
    /\ pc \in {"uefi_services_init", "config_stdout", "set_watchdog_timer",
               "config_load", "find_secure_devices", "recv_locked",
               "recv_locked_ret", "write_prompt", "input_password",
               "try_unlock_device", "try_unlock_device_ret", "clear",
               "write_retry_prompt", "find_boot_partitions", "boot_menu",
               "choose", "run_input_line", "read_full_file", "load_image",
               "start_image", "log_error", "log_reboot",
               "input_line", "reset", "halted", "panic"}
    /\ config \in Configs \cup {NoConfig}
    /\ ndev \in 0..MaxDevices
    /\ device \in 0..(MaxDevices + 1)
    /\ password \in Passwords \cup {""}
    /\ result \in {"none", "Ok", "Err"}
    /\ \A d \in Devices : session[d] \in {"Closed", "Authenticating", "Active"}
    /\ dop \in {"none", "is_locked", "attempt_unlock"}
    /\ dret \in {"none", "Ok_true", "Ok_false", "Err"}
    /\ Len(bootable_things) <= Len(boot_options)
    /\ \A i \in DOMAIN boot_options :
          /\ boot_options[i].selectable \in BOOLEAN
          /\ boot_options[i].overrun \in BOOLEAN
    /\ index \in Nat
    /\ cleaned \in Nat
    /\ cleaned <= index
    /\ buf \in Seq(0..255)


\* ----------------------------------------------- reading the history
\* The operations run issued for device d, in order.
Ops(d) ==
    LET OnDevice(e) == e.dev = d
    IN  SelectSeq(trace, OnDevice)

\* The operations run issued for any device, in order.
DeviceOps ==
    LET OnAnyDevice(e) == e.dev > 0
    IN  SelectSeq(trace, OnAnyDevice)

Seen(op, d) == Count(op, d) > 0

\* The retry loop of device d is running.
InLoop(d) ==
    /\ device = d
    /\ pc \in {"input_password", "try_unlock_device", "try_unlock_device_ret",
               "clear", "write_retry_prompt"}

\* ------------------------------------------------------------ claims
\* C1: in the retry loop of a device, try_unlock_device is called exactly
\* once per password read (each call directly follows the read of the
\* password it is given, each read is followed by nothing but its call),
\* the loop is left with the first accepted password, and nothing is issued
\* to that device afterwards.
C1_OncePerPasswordThenExit ==
    \A d \in 1..ndev :
        LET s == Ops(d) IN
        /\ \A i \in DOMAIN s :
             /\ s[i].op = "try_unlock_device" =>
                   i > 1 /\ s[i-1].op = "password" /\ s[i-1].arg = s[i].arg
             /\ (s[i].op = "password" /\ i < Len(s)) => s[i+1].op = "try_unlock_device"
             /\ s[i].op = "accepted" => i = Len(s)
        /\ Count("accepted", d) <= 1
        /\ Seen("accepted", d) =>
             /\ device > d
             /\ Count("try_unlock_device", d) = Count("password", d)
             /\ Count("try_unlock_device", d) = Count("rejected", d) + 1

C1_Witness ==
    /\ Count("rejected", 1) = 2
    /\ Count("accepted", 1) = 1
    /\ Count("try_unlock_device", 1) = 3
    /\ Count("password", 1) = 3

\* C2 as stated: after a fault on a device the orchestrator leaves it
\* locked, does not retry it, and goes on to the next discovered device,
\* which is still queried.
C2_ProceedsToNextDevice ==
    pc = "halted" =>
        \A i \in DOMAIN trace :
            (trace[i].op = "fault" /\ trace[i].dev < ndev) =>
                /\ \A j \in DOMAIN trace : j > i => trace[j].dev # trace[i].dev
                /\ Seen("recv_locked", trace[i].dev + 1)

\* C2, what run does instead: device 1 of two locked devices faulted, run
\* returned the error and main reset the machine; device 2 was never
\* queried.
C2_Witness ==
    /\ pc = "halted"
    /\ ndev = 2
    /\ Seen("fault", 1)
    /\ is_locked(hw[1])
    /\ is_locked(hw[2])
    /\ Ops(2) = << >>

\* C3: a device whose locking-state query reports not locked is skipped:
\* no prompt is written, no password is read and try_unlock_device is never
\* called for it; the query is all that is issued to it.
C3_UnlockedDeviceSkipped ==
    \A d \in 1..ndev :
        Seen("not_locked", d) =>
            /\ Count("prompt", d) = 0
            /\ Count("retry_prompt", d) = 0
            /\ Count("clear", d) = 0
            /\ Count("password", d) = 0
            /\ Count("try_unlock_device", d) = 0
            /\ Len(Ops(d)) = 2
            /\ device > d

C3_Witness ==
    /\ ndev = 2
    /\ Seen("not_locked", 1)
    /\ Seen("accepted", 2)
    /\ pc = "find_boot_partitions"

\* C4: the retry prompt is written once per rejected credential and never
\* after an accepted one: whenever the loop waits for a password or has been
\* left by an accepted one, the retry prompts of the device number its
\* rejections.  The screen is cleared once per rejection, directly before
\* that retry prompt, exactly when clear_on_retry is set; when it is not,
\* the loop never clears the screen.
C4_RetryPromptPerRejection ==
    \A d \in 1..ndev :
        LET s == Ops(d) IN
        /\ \A i \in DOMAIN s :
             /\ s[i].op = "retry_prompt" =>
                   /\ i > 1
                   /\ s[i].arg = RetryPromptText(config)
                   /\ IF config.clear_on_retry
                        THEN s[i-1].op = "clear"
                        ELSE s[i-1].op = "rejected"
             /\ s[i].op = "clear" =>
                   /\ config.clear_on_retry
                   /\ i > 1 /\ s[i-1].op = "rejected"
             /\ (s[i].op = "rejected" /\ i < Len(s)) =>
                   s[i+1].op = (IF config.clear_on_retry THEN "clear" ELSE "retry_prompt")
             /\ (s[i].op = "clear" /\ i < Len(s)) => s[i+1].op = "retry_prompt"
        /\ ((device = d /\ pc = "input_password") \/ Seen("accepted", d)) =>
             /\ Count("retry_prompt", d) = Count("rejected", d)
             /\ Count("clear", d) =
                   (IF config.clear_on_retry THEN Count("rejected", d) ELSE 0)

C4_Witness ==
    /\ config.clear_on_retry
    /\ Count("rejected", 1) = 2
    /\ Count("accepted", 1) = 1
    /\ Count("retry_prompt", 1) = 2
    /\ Count("clear", 1) = 2


\* The safety half of C5: after a rejection the loop goes on, on the same
\* device, with the retry prompt, another password read and another
\* try_unlock_device call, and a locked device's loop is left only by an
\* accepted credential or by a fatal error (run returns, or a console write
\* panics).
C5_Safety ==
    \A d \in 1..ndev :
        LET s == Ops(d) IN
        /\ \A i \in DOMAIN s :
             s[i].op = "rejected" =>
                LET NotClear(e) == e.op # "clear"
                    rest == SelectSeq(SubSeq(s, i + 1, Len(s)), NotClear)
                IN  /\ Len(rest) >= 1 => rest[1].op = "retry_prompt"
                    /\ Len(rest) >= 2 => rest[2].op = "password"
                    /\ Len(rest) >= 3 => rest[3].op = "try_unlock_device"
        /\ (Seen("locked", d) /\ ~Seen("accepted", d)) =>
             \/ InLoop(d)
             \/ device = d /\ pc = "write_prompt"
             \/ device = d /\ pc = "panic"
             \/ device = d /\ result = "Err"

\* C5: the retry loop has no retry limit.  After any number of rejected
\* credentials the loop is still running on the same device and goes on to
\* read another password and to call try_unlock_device again; it is left
\* only by an accepted credential or by a fatal error.  With the right
\* password eventually typed, the loop of every device is eventually left
\* (one device is in its loop at a time, so a running loop leads to a state
\* where none is running).
C5_UnboundedRetry ==
    /\ []C5_Safety
    /\ (\E d \in 1..MaxDevices : InLoop(d)) ~> ~(\E d \in 1..MaxDevices : InLoop(d))

C5_Witness ==
    /\ Count("rejected", 1) = MaxRejects
    /\ Count("password", 1) = MaxRejects + 1
    /\ Count("try_unlock_device", 1) = MaxRejects + 1
    /\ InLoop(1)
    /\ pc = "try_unlock_device_ret"

\* C6: a fault is never retried: once recv_locked or try_unlock_device has
\* returned a fatal error for a device, nothing more (no query, no unlock
\* attempt) is issued to it.  Only a rejected credential leads to another
\* attempt, and every attempt is given the password read from the operator
\* directly before it: after the first, each password read follows a
\* rejection of the previous one.
C6_NoRetryOfFaults ==
    \A d \in 1..ndev :
        LET s == Ops(d) IN
        /\ \A i \in DOMAIN s :
             /\ s[i].op = "fault" => i = Len(s)
             /\ s[i].op = "recv_locked" => i = 1
             /\ s[i].op = "try_unlock_device" =>
                   /\ s[i-1].op = "password"
                   /\ s[i-1].arg = s[i].arg
                   /\ \A j \in 1..(i-1) :
                        s[j].op = "try_unlock_device" =>
                            \E k \in (j+1)..(i-1) :
                                /\ s[k].op = "rejected"
                                /\ \E m \in (k+1)..(i-1) : s[m].op = "password"
        /\ Count("fault", d) <= 1
        /\ Count("password", d) <= Count("rejected", d) + 1
        /\ Seen("fault", d) => (dop = "none" /\ device = d /\ result = "Err")

C6_Witness ==
    /\ Count("rejected", 1) = 1
    /\ Count("password", 1) = 2
    /\ Count("try_unlock_device", 1) = 2
    /\ Seen("fault", 1)
    /\ pc = "halted"

\* C7: boot continuation (boot-partition enumeration, the menu, load_image,
\* start_image) is reached only when the device loop is over for every
\* discovered device, each having reported not locked or had an unlock
\* attempt accepted; no device operation is in progress then.
C7_BootAfterAllDevices ==
    (pc \in {"find_boot_partitions", "boot_menu", "load_image", "start_image"}
       \/ Seen("find_boot_partitions", 0)) =>
        /\ ndev = Len(hw)
        /\ device = ndev + 1
        /\ dop = "none"
        /\ \A d \in 1..ndev :
             /\ Seen("not_locked", d) \/ Seen("accepted", d)
             /\ ~Seen("fault", d)
             /\ ~InLoop(d)

C7_Witness ==
    /\ pc = "boot_menu"
    /\ ndev = 2
    /\ Seen("accepted", 1)
    /\ Seen("rejected", 1)
    /\ Seen("not_locked", 2)

\* C8: devices are processed one after the other in enumeration order:
\* whatever is issued is issued to the loop's current device, nothing is
\* issued to device i+1 before device i was skipped as not locked or
\* unlocked, and nothing is issued to device i once device i+1 has started.
C8_StrictlySequential ==
    LET s == DeviceOps IN
    /\ \A i \in DOMAIN s :
         /\ i > 1 => s[i-1].dev <= s[i].dev
         /\ (i > 1 /\ s[i-1].dev < s[i].dev) =>
               /\ s[i].dev = s[i-1].dev + 1
               /\ s[i-1].op \in {"not_locked", "accepted"}
               /\ s[i].op = "recv_locked"
         /\ i = 1 => s[i].dev = 1
         /\ s[i].dev <= device
    /\ (dop # "none") => (device \in 1..ndev /\ Ops(device) # << >>)
    /\ \A d \in Devices : d # device => session[d] = "Closed"

C8_Witness ==
    /\ ndev = 2
    /\ Seen("rejected", 1)
    /\ Seen("accepted", 1)
    /\ Seen("rejected", 2)
    /\ Seen("accepted", 2)

\* C9: on a device that reports locked, an unlock attempt with the right
\* password is accepted and an attempt with a wrong one is rejected; once an
\* attempt was accepted the device's lock bits are both clear, so that
\* is_locked reports not locked from then on, and while only rejections have
\* happened it still reports locked.
C9_AcceptedMeansUnlocked ==
    \A d \in 1..ndev :
        LET s == Ops(d) IN
        /\ \A i \in DOMAIN s :
             /\ s[i].op = "accepted" => s[i-1].arg = Pin(d)
             /\ s[i].op = "rejected" => s[i-1].arg # Pin(d)
        /\ Seen("accepted", d) =>
             /\ ~is_locked(hw[d])
             /\ ~hw[d].read_locked /\ ~hw[d].write_locked
        /\ (Seen("locked", d) /\ ~Seen("accepted", d) /\ dstep # "close"
              /\ ~(device = d /\ pc = "try_unlock_device_ret" /\ dret = "Ok_true")) =>
             is_locked(hw[d])

C9_Witness ==
    /\ Seen("locked", 1)
    /\ Count("password", 1) = 1
    /\ Seen("accepted", 1)
    /\ ~is_locked(hw[1])

\* C10: at most one session is open per device at any time: the session an
\* operation opens is closed (EndSession, nak or a transport error) before
\* the operation returns, so before the next one opens a session on the
\* device, also across repeated rejected attempts; and authenticate,
\* get_locking_state and set_locking_state are only issued on an Active
\* session.
C10_OneSessionPerDevice ==
    /\ \A d \in Devices :
         /\ open_sessions[d] \in {0, 1}
         /\ open_sessions[d] = 1 <=> session[d] # "Closed"
         /\ (dop = "none" \/ dstep \in {"start_session", "returned"}) =>
               open_sessions[d] = 0
    /\ \A e \in issued : e.state = "Active"
    /\ dstep \in {"get_locking_state", "authenticate", "set_locking_state", "close"} =>
         session[device] = "Active"

C10_Witness ==
    /\ Count("rejected", 1) = 2
    /\ dstep = "set_locking_state"
    /\ session[1] = "Active"
    /\ open_sessions[1] = 1
    /\ \E e \in issued : e.method = "authenticate" /\ e.dev = 1


\* C11: session monotonicity.  Within one session the sequence numbers of
\* the packets sent strictly increase and none is used twice, the counter
\* being ahead of all of them; after a fault in a method call the session
\* is Closed, and the call made on it afterwards (the close() on the way
\* out) fails without sending a packet: the faulted method's packet stays
\* the session's last.
C11_SessionMonotonicity ==
    /\ \A i, j \in DOMAIN sent : i < j => sent[i].seq < sent[j].seq
    /\ \A i \in DOMAIN sent : sent[i].seq < seq
    /\ refused # {} =>
         /\ session[device] = "Closed"
         /\ dstep = "returned" => dret = "Err"
         /\ sent # << >>
         /\ sent[Len(sent)].method # "EndSession"
    /\ dstep = "close_faulted" =>
         /\ session[device] = "Closed"
         /\ open_sessions[device] = 0
         /\ dret = "Err"
    /\ (dstep = "returned" /\ dret = "Err" /\ sent # << >>) =>
         /\ refused = {"EndSession"}
         /\ sent[Len(sent)].method \in
               {"get_locking_state", "authenticate", "set_locking_state"}
    /\ (dstep = "returned" /\ dret # "Err") =>
         /\ refused = {}
         /\ sent # << >> /\ sent[Len(sent)].method = "EndSession"

C11_Witness ==
    /\ dstep = "returned"
    /\ dret = "Err"
    /\ Len(sent) = 2
    /\ sent[1].seq = 0
    /\ sent[2].seq = 1
    /\ sent[2].method = "set_locking_state"
    /\ refused = {"EndSession"}


\* What the configuration showed on the console: every prompt written so
\* far is the configured text (or its default), and the screen was cleared
\* only with clear_on_retry set.
C12_SameConfigSeen ==
    \A i \in DOMAIN trace :
        /\ trace[i].op = "prompt" => trace[i].arg = PromptText(config)
        /\ trace[i].op = "retry_prompt" => trace[i].arg = RetryPromptText(config)
        /\ trace[i].op = "clear" => config.clear_on_retry

\* C12: the configuration is only read.  It is loaded once, before device
\* discovery (config_load is entered only from the watchdog step), and no
\* other step changes it, so every retry of every device sees the same
\* prompt texts and the same clear_on_retry value.
C12_ConfigReadOnly ==
    /\ []C12_SameConfigSeen
    /\ [][/\ pc # "config_load" => config' = config
          /\ pc' = "config_load" => pc = "set_watchdog_timer"
          /\ pc' = "find_secure_devices" => pc = "config_load"]_vars

C12_Witness ==
    /\ config.clear_on_retry
    /\ config.prompt # ""
    /\ config.retry_prompt # ""
    /\ Count("retry_prompt", 1) = 2
    /\ Count("clear", 1) = 2
    /\ Count("retry_prompt", 2) = 2
    /\ Count("clear", 2) = 2


\* What main's handler has done when main is at position p: logged the
\* error, logged the reboot notice, waited for Enter, reset cold.
HandlerTail(p) ==
    LET done == <<Ev("log_error", 0, "Error"),
                  Ev("log_error", 0, "Encountered error. Reboot on Enter..."),
                  Ev("input_line", 0, ""),
                  Ev("reset", 0, "Cold")>>
    IN  CASE p = "log_error" -> SubSeq(done, 1, 0)
          [] p = "log_reboot" -> SubSeq(done, 1, 1)
          [] p = "input_line" -> SubSeq(done, 1, 2)
          [] p = "reset" -> SubSeq(done, 1, 3)
          [] p = "halted" -> done

\* C13: once run has returned an error, main is in its handler, which logs
\* the error, logs the reboot notice, waits for Enter and resets cold, in
\* that order and as the last things that happen: no device operation is
\* issued or in progress any more and no session is open, and no boot image
\* has been started, unless the error is the one start_image itself
\* returned.
C13_ErrorEndsInColdReset ==
    result = "Err" =>
        /\ pc \in {"log_error", "log_reboot", "input_line", "reset", "halted"}
        /\ dop = "none"
        /\ \A d \in Devices : session[d] = "Closed"
        /\ LET t == HandlerTail(pc)
               n == Len(trace) - Len(t)
           IN  /\ n >= 0
               /\ SubSeq(trace, n + 1, Len(trace)) = t
               /\ \A i \in 1..n :
                    /\ trace[i].op # "reset"
                    /\ trace[i].op = "log_error" =>
                          (i = 1 /\ trace[i].arg = "Failed to initialize UEFI services")
                    /\ trace[i].op = "input_line" =>
                          (i > 1 /\ trace[i - 1].op = "choose")
                    /\ trace[i].op = "start_image" =>
                          (i = n /\ trace[i].arg = "Err")

C13_Witness ==
    /\ result = "Err"
    /\ pc = "halted"
    /\ Seen("accepted", 1)
    /\ Seen("load_image", 0)
    /\ ~Seen("start_image", 0)


\* C16: for a device that reports locked the initial prompt (config.prompt,
\* or "password: " when unset) is written once, directly after the query's
\* answer and before the first password is read, and never again; every
\* later password read of the device directly follows a retry prompt
\* (config.retry_prompt, or "bad password, retry: " when unset).
C16_PromptOnceThenRetryPrompt ==
    \A d \in 1..ndev :
        LET s == Ops(d)
            reads == {i \in DOMAIN s : s[i].op = "password"}
        IN
        /\ Count("prompt", d) <= 1
        /\ \A i \in DOMAIN s :
             s[i].op = "prompt" =>
                /\ i = 3 /\ s[2].op = "locked"
                /\ s[i].arg = (IF config.prompt = "" THEN "password: " ELSE config.prompt)
        /\ \A i \in reads :
             IF \A j \in reads : i <= j
               THEN i = 4 /\ s[i-1].op = "prompt"
               ELSE /\ s[i-1].op = "retry_prompt"
                    /\ s[i-1].arg = (IF config.retry_prompt = ""
                                       THEN "bad password, retry: "
                                       ELSE config.retry_prompt)
        /\ (Seen("locked", d) /\ (device > d \/ InLoop(d))) => Count("prompt", d) = 1

C16_Witness ==
    /\ config.prompt = ""
    /\ config.retry_prompt # ""
    /\ Count("prompt", 1) = 1
    /\ Count("retry_prompt", 1) = 2
    /\ Count("password", 1) = 3
    /\ Seen("accepted", 1)

\* ------------------------------------------------------ the boot menu
\* The menu lines up to and including line i (1-based) that are selectable.
SelectableUpTo(i) ==
    {j \in 1..i : j <= Len(boot_options) /\ boot_options[j].selectable}

\* The header line that menu line i stands under (0 when there is none).
HeaderOf(i) ==
    LET hs == {j \in 1..i : ~boot_options[j].selectable}
    IN  IF hs = {} THEN 0 ELSE CHOOSE j \in hs : \A k \in hs : k <= j

\* The boot partition whose header is menu line h: the headers are in
\* partition order.
PartitionOfHeader(h) ==
    boot_partitions[Cardinality({j \in 1..h : ~boot_options[j].selectable})]

\* Bootable thing t is what menu line i offers: the line shows t's file
\* name and stands under the header of t's partition.
Offers(i, t) ==
    /\ boot_options[i].selectable
    /\ boot_options[i].text = "    " \o t.efi_file
    /\ HeaderOf(i) > 0
    /\ LET p == PartitionOfHeader(HeaderOf(i))
       IN  /\ \E d \in Descriptions(p) :
                 /\ ~d.panic
                 /\ boot_options[HeaderOf(i)].text = d.text
                 /\ boot_options[HeaderOf(i)].overrun = d.overrun
           /\ t.partition = p.handle
           /\ t.partuuid = p.unique_partition_guid

\* The menu has been built.
MenuBuilt ==
    pc \in {"choose", "run_input_line", "read_full_file", "load_image", "start_image"}

\* A menu line has been chosen and run has not returned.
Chosen ==
    \/ pc \in {"run_input_line", "read_full_file", "load_image", "start_image"}
    \/ pc = "panic" /\ Seen("choose", 0)

\* C14: the menu has one unselectable header per EFI system partition, each
\* followed by one selectable line per EFI file found there, and
\* bootable_things holds the selectable lines in menu order; for every
\* selectable line the cleaned index (selectable lines among the first
\* index+1, minus one) is within bootable_things and names the partition
\* and file of that line, and run goes on with it; a chosen header with no
\* selectable line before it makes the subtraction underflow, which panics.
C14_CleanedIndexSelectsEntry ==
    (MenuBuilt \/ Chosen) =>
      /\ Cardinality({j \in DOMAIN boot_options : ~boot_options[j].selectable})
            = Len(boot_partitions)
      /\ Cardinality(SelectableUpTo(Len(boot_options))) = Len(bootable_things)
      /\ boot_options # << >> => ~boot_options[1].selectable
      /\ \A h \in DOMAIN boot_options :
            ~boot_options[h].selectable =>
               Cardinality({j \in DOMAIN boot_options :
                               boot_options[j].selectable /\ HeaderOf(j) = h})
                 = Len(find_efi_files(PartitionOfHeader(h)))
      /\ \A i \in 0..(Len(boot_options) - 1) :
            boot_options[i + 1].selectable =>
               LET c == Cardinality(SelectableUpTo(i + 1)) - 1
               IN  /\ c \in 0..(Len(bootable_things) - 1)
                   /\ Offers(i + 1, bootable_things[c + 1])
      /\ Chosen =>
            LET c == Cardinality(SelectableUpTo(index + 1)) - 1
            IN  /\ (index < Len(boot_options) /\ boot_options[index + 1].selectable) =>
                     pc # "panic" /\ cleaned = c
                /\ c < 0 => pc = "panic"

\* A selectable line below the second header was chosen and run goes on
\* with the third bootable thing.
C14_Witness ==
    /\ pc = "load_image"
    /\ Len(boot_options) = 5
    /\ index = 4
    /\ boot_options[5].selectable
    /\ cleaned = 2
    /\ bootable_things[3].efi_file = "\\shell.efi"
    /\ bootable_things[3].partuuid = "uuid-3"

\* ------------------------------------------------ PE/COFF images only
\* The bytes begin with the PE/COFF magic 0x4d 0x5a.
StartsWithMZ(b) == Len(b) >= 2 /\ b[1] = 77 /\ b[2] = 90

\* The operation the step appends to the history is `op`.
Issues(op) ==
    /\ Len(trace') = Len(trace) + 1
    /\ trace'[Len(trace')].op = op

\* What holds of the menu and of the history in every state: listed files
\* began 0x4d 0x5a when the volume was walked; start_image is reached only
\* through load_image and with a buffer that begins 0x4d 0x5a; an
\* ImageNotPeCoff return excludes load_image and start_image and is the
\* last thing run does.
C15_OnlyPeCoffListed ==
    /\ \A k \in DOMAIN bootable_things :
          LET t == bootable_things[k]
          IN  \E f \in Files(Volume(t.partition), "") :
                 /\ f.path = t.efi_file
                 /\ StartsWithMZ(f.data)
    /\ pc = "start_image" =>
          /\ StartsWithMZ(buf)
          /\ trace[Len(trace)].op = "load_image"
    /\ Seen("start_image", 0) => Seen("load_image", 0)
    /\ Seen("load_image", 0) => ~Seen("ImageNotPeCoff", 0)
    /\ \A i \in DOMAIN trace :
          trace[i].op = "ImageNotPeCoff" =>
             /\ result = "Err"
             /\ i = Len(trace) \/ trace[i + 1].op = "log_error"

\* C15: a file is on the menu only if it had at least two bytes, 0x4d 0x5a
\* first, when the volume was walked; load_image and start_image are called
\* only with a buffer that begins 0x4d 0x5a; a buffer that does not makes
\* run return ImageNotPeCoff instead, although the file was on the menu.
C15_OnlyPeCoffOfferedAndStarted ==
    /\ []C15_OnlyPeCoffListed
    /\ [][/\ Issues("load_image") => (pc = "load_image" /\ StartsWithMZ(buf))
          /\ Issues("start_image") => (pc = "start_image" /\ StartsWithMZ(buf))
          /\ (pc = "load_image" /\ ~StartsWithMZ(buf)) =>
                /\ result' = "Err"
                /\ pc' = "log_error"
                /\ trace' = Append(trace, Ev("ImageNotPeCoff", 0,
                                             bootable_things[cleaned + 1].efi_file))
          /\ Issues("ImageNotPeCoff") =>
                /\ pc = "load_image" /\ ~StartsWithMZ(buf)
                /\ \E k \in DOMAIN boot_options :
                      /\ boot_options[k].selectable
                      /\ boot_options[k].text = "    " \o trace'[Len(trace')].arg]_vars

\* The file offered as \EFI\grub.efi was chosen, what was read of it did
\* not begin 0x4d 0x5a, and run ended with ImageNotPeCoff without calling
\* load_image.
C15_Witness ==
    /\ \E i \in DOMAIN trace :
          trace[i].op = "ImageNotPeCoff" /\ trace[i].arg = "\\EFI\\grub.efi"
    /\ ~Seen("load_image", 0)
    /\ result = "Err"
    /\ pc = "halted"

====
